---- MODULE Spec2Model ----
(***************************************************************************)
(* A model of the contact-management REST API: the authentication routes   *)
(* (src/src/routes/auth.py), the contact routes and repository             *)
(* (src/src/routes/contacts.py, src/src/repository/contacts.py) and the    *)
(* user routes with the identity cache (src/src/routes/users.py).          *)
(*                                                                         *)
(* Seven specifications share the variables:                               *)
(*   Spec          the authentication routes, over a clock;                *)
(*   SpecContacts  the contact routes, over a store of provisioned         *)
(*                 principals;                                             *)
(*   SpecBirthday  contact creation and the birthday search, over two      *)
(*                 days;                                                   *)
(*   SpecCache     the user routes and the identity cache, over a clock;   *)
(*   SpecAvatar    the user routes with avatar updates side by side;       *)
(*   SpecSignup    signup requests side by side, check and creation apart; *)
(*   SpecRefresh   refresh requests side by side, read and write apart.    *)
(***************************************************************************)
EXTENDS Integers, Sequences, FiniteSets, TLC

VARIABLES
    users,      \* the users table: a function from the emails that exist to rows
    contacts,   \* the contacts table: a function from the ids that exist to rows
    next_id,    \* the next contact id the table's sequence hands out
    today,      \* date.today(), a calendar date
    cache,      \* the identity cache: a function from the keys present to entries
    now,        \* the clock, in seconds
    issued,     \* the refresh tokens the service has signed so far
    mailed,     \* the confirmation tokens the service has e-mailed so far
    used,       \* the refresh tokens a refresh has succeeded with so far
    lookups,    \* per email, how many storage lookups the resolver made, and the last one's time
    inflight,   \* the avatar requests under way: a function from request slots to their state
    resp        \* the response of the last request

vars == <<users, contacts, next_id, today, cache, now, issued, mailed, used, lookups, inflight, resp>>

(***************************************************************************)
(* Bounds of the model.                                                    *)
(***************************************************************************)
MaxTime == 3
MaxContacts == 2
AccessTTL == 1
RefreshTTL == 2
ConfirmTTL == 2

Emails == {"a@x.io", "b@x.io"}
SignupEmails == {"a@x.io"}
SignupPassword == "secret1"
Passwords == {"secret1", "secret2"}
Roles == {"user", "moderator", "admin"}

(***************************************************************************)
(* PasswordHasher, TokenCodec and the users repository.                     *)
(***************************************************************************)
get_password_hash(password) == <<"hash", password>>

verify_password(password, hashed) == hashed = get_password_hash(password)

NoToken == [sub |-> "", scope |-> "none", iat |-> 0]

\* Any string that is not a token this service signed.
Garbage == [sub |-> "", scope |-> "garbage", iat |-> 0]

TokenTTL(scope) ==
    CASE scope = "access_token" -> AccessTTL
      [] scope = "refresh_token" -> RefreshTTL
      [] scope = "email_token" -> ConfirmTTL
      [] OTHER -> 0

\* A token is its signed payload: subject, intent, issued_at (expiry is
\* issued_at plus the intent's lifetime). Signing is deterministic.
issue(subject, scope, t) == [sub |-> subject, scope |-> scope, iat |-> t]

create_access_token(email, t) == issue(email, "access_token", t)

create_refresh_token(email, t) == issue(email, "refresh_token", t)

create_email_token(email, t) == issue(email, "email_token", t)

Exp(token) == token.iat + TokenTTL(token.scope)

verify(token, expected, t) ==
    IF token.scope \in {"garbage", "none"}
    THEN [ok |-> FALSE, err |-> "TokenInvalid", sub |-> ""]
    ELSE IF t > Exp(token)
    THEN [ok |-> FALSE, err |-> "TokenExpired", sub |-> ""]
    ELSE IF token.scope # expected
    THEN [ok |-> FALSE, err |-> "TokenIntentMismatch", sub |-> ""]
    ELSE [ok |-> TRUE, err |-> "", sub |-> token.sub]

decode_refresh_token(token, t) == verify(token, "refresh_token", t)

get_email_from_token(token, t) == verify(token, "email_token", t)

\* The token strings a client can present: what the service has handed out
\* (refresh tokens, the access tokens issued with them, e-mailed
\* confirmation tokens) and strings it never signed.
Presentable ==
    issued
    \cup {create_access_token(r.sub, r.iat) : r \in issued}
    \cup mailed
    \cup {Garbage}

Exists(email) == email \in DOMAIN users

NewUser(email, hashed) ==
    [id |-> Cardinality(DOMAIN users) + 1,
     email |-> email,
     password |-> hashed,
     role |-> "user",
     confirmed |-> FALSE,
     refresh_token |-> NoToken,
     avatar |-> "gravatar"]

create_user(email, hashed) ==
    [e \in DOMAIN users \cup {email} |->
        IF e = email THEN NewUser(email, hashed) ELSE users[e]]

update_token(email, token) ==
    [users EXCEPT ![email].refresh_token = token]

confirmed_email_repo(email) ==
    [users EXCEPT ![email].confirmed = TRUE]

(***************************************************************************)
(* Responses of the authentication routes.                                 *)
(***************************************************************************)
AuthResp(op, email, status, detail) ==
    [op |-> op, email |-> email, status |-> status, detail |-> detail,
     access_token |-> NoToken,
     refresh_token |-> NoToken, token_type |-> ""]

TokenResp(op, email, access, refresh) ==
    [op |-> op, email |-> email, status |-> 200, detail |-> "",
     access_token |-> access,
     refresh_token |-> refresh, token_type |-> "bearer"]

NoResp == AuthResp("none", "", 0, "")

AuthFrame == UNCHANGED <<contacts, next_id, today, cache, lookups, inflight>>

(***************************************************************************)
(* POST /auth/signup                                                       *)
(***************************************************************************)
signup(email, password) ==
    /\ AuthFrame
    /\ UNCHANGED <<now, issued, used>>
    /\ IF Exists(email)
       THEN /\ resp' = AuthResp("signup", email, 409, "AccountAlreadyExists")
            /\ UNCHANGED <<users, mailed>>
       ELSE /\ users' = create_user(email, get_password_hash(password))
            /\ mailed' = mailed \cup {create_email_token(email, now)}
            /\ resp' = AuthResp("signup", email, 201, "")

(***************************************************************************)
(* POST /auth/login                                                        *)
(***************************************************************************)
\* login with the password checked before the confirmation flag.
login_password_first(email, password) ==
    /\ AuthFrame
    /\ UNCHANGED <<now, mailed, used>>
    /\ IF ~Exists(email)
       THEN /\ resp' = AuthResp("login", email, 401, "UserNotFound")
            /\ UNCHANGED <<users, issued>>
       ELSE IF ~verify_password(password, users[email].password)
       THEN /\ resp' = AuthResp("login", email, 401, "InvalidCredentials")
            /\ UNCHANGED <<users, issued>>
       ELSE IF ~users[email].confirmed
       THEN /\ resp' = AuthResp("login", email, 401, "EmailNotConfirmed")
            /\ UNCHANGED <<users, issued>>
       ELSE LET access == create_access_token(email, now)
                refresh == create_refresh_token(email, now)
            IN  /\ users' = update_token(email, refresh)
                /\ issued' = issued \cup {refresh}
                /\ resp' = TokenResp("login", email, access, refresh)

\* login without the check of the confirmation flag.
login_without_confirmation(email, password) ==
    /\ AuthFrame
    /\ UNCHANGED <<now, mailed, used>>
    /\ IF ~Exists(email)
       THEN /\ resp' = AuthResp("login", email, 401, "UserNotFound")
            /\ UNCHANGED <<users, issued>>
       ELSE IF ~verify_password(password, users[email].password)
       THEN /\ resp' = AuthResp("login", email, 401, "InvalidCredentials")
            /\ UNCHANGED <<users, issued>>
       ELSE LET access == create_access_token(email, now)
                refresh == create_refresh_token(email, now)
            IN  /\ users' = update_token(email, refresh)
                /\ issued' = issued \cup {refresh}
                /\ resp' = TokenResp("login", email, access, refresh)

\* login that persists the access token in place of the refresh token.
login_stores_access_token(email, password) ==
    /\ AuthFrame
    /\ UNCHANGED <<now, mailed, used>>
    /\ IF ~Exists(email)
       THEN /\ resp' = AuthResp("login", email, 401, "UserNotFound")
            /\ UNCHANGED <<users, issued>>
       ELSE IF ~users[email].confirmed
       THEN /\ resp' = AuthResp("login", email, 401, "EmailNotConfirmed")
            /\ UNCHANGED <<users, issued>>
       ELSE IF ~verify_password(password, users[email].password)
       THEN /\ resp' = AuthResp("login", email, 401, "InvalidCredentials")
            /\ UNCHANGED <<users, issued>>
       ELSE LET access == create_access_token(email, now)
                refresh == create_refresh_token(email, now)
            IN  /\ users' = update_token(email, access)
                /\ issued' = issued \cup {refresh}
                /\ resp' = TokenResp("login", email, access, refresh)

login(email, password) ==
    /\ AuthFrame
    /\ UNCHANGED <<now, mailed, used>>
    /\ IF ~Exists(email)
       THEN /\ resp' = AuthResp("login", email, 401, "UserNotFound")
            /\ UNCHANGED <<users, issued>>
       ELSE IF ~users[email].confirmed
       THEN /\ resp' = AuthResp("login", email, 401, "EmailNotConfirmed")
            /\ UNCHANGED <<users, issued>>
       ELSE IF ~verify_password(password, users[email].password)
       THEN /\ resp' = AuthResp("login", email, 401, "InvalidCredentials")
            /\ UNCHANGED <<users, issued>>
       ELSE LET access == create_access_token(email, now)
                refresh == create_refresh_token(email, now)
            IN  /\ users' = update_token(email, refresh)
                /\ issued' = issued \cup {refresh}
                /\ resp' = TokenResp("login", email, access, refresh)

(***************************************************************************)
(* GET /auth/refresh_token                                                 *)
(***************************************************************************)
\* refresh_token that rejects a mismatch without clearing the stored token.
refresh_token_keeps_stored(token) ==
    /\ AuthFrame
    /\ UNCHANGED <<now, mailed>>
    /\ LET v == decode_refresh_token(token, now)
           email == v.sub
       IN  IF ~v.ok
           THEN /\ resp' = AuthResp("refresh_token", "", 401, v.err)
                /\ UNCHANGED <<users, issued, used>>
           ELSE IF ~Exists(email)
           THEN /\ resp' = AuthResp("refresh_token", email, 500, "Unhandled")
                /\ UNCHANGED <<users, issued, used>>
           ELSE IF users[email].refresh_token # token
           THEN /\ resp' = AuthResp("refresh_token", email, 401, "RefreshTokenRevoked")
                /\ UNCHANGED <<users, issued, used>>
           ELSE LET access == create_access_token(email, now)
                    refresh == create_refresh_token(email, now)
                IN  /\ users' = update_token(email, refresh)
                    /\ issued' = issued \cup {refresh}
                    /\ used' = used \cup {token}
                    /\ resp' = TokenResp("refresh_token", email, access, refresh)

\* refresh_token that decodes the token without asking for the refresh intent.
refresh_token_any_intent(token) ==
    /\ AuthFrame
    /\ UNCHANGED <<now, mailed>>
    /\ LET v == verify(token, token.scope, now)
           email == v.sub
       IN  IF ~v.ok
           THEN /\ resp' = AuthResp("refresh_token", "", 401, v.err)
                /\ UNCHANGED <<users, issued, used>>
           ELSE IF ~Exists(email)
           THEN /\ resp' = AuthResp("refresh_token", email, 500, "Unhandled")
                /\ UNCHANGED <<users, issued, used>>
           ELSE IF users[email].refresh_token # token
           THEN /\ users' = update_token(email, NoToken)
                /\ resp' = AuthResp("refresh_token", email, 401, "RefreshTokenRevoked")
                /\ UNCHANGED <<issued, used>>
           ELSE LET access == create_access_token(email, now)
                    refresh == create_refresh_token(email, now)
                IN  /\ users' = update_token(email, refresh)
                    /\ issued' = issued \cup {refresh}
                    /\ used' = used \cup {token}
                    /\ resp' = TokenResp("refresh_token", email, access, refresh)

refresh_token(token) ==
    /\ AuthFrame
    /\ UNCHANGED <<now, mailed>>
    /\ LET v == decode_refresh_token(token, now)
           email == v.sub
       IN  IF ~v.ok
           THEN /\ resp' = AuthResp("refresh_token", "", 401, v.err)
                /\ UNCHANGED <<users, issued, used>>
           ELSE IF ~Exists(email)
           THEN \* user is None: user.refresh_token raises AttributeError
                /\ resp' = AuthResp("refresh_token", email, 500, "Unhandled")
                /\ UNCHANGED <<users, issued, used>>
           ELSE IF users[email].refresh_token # token
           THEN /\ users' = update_token(email, NoToken)
                /\ resp' = AuthResp("refresh_token", email, 401, "RefreshTokenRevoked")
                /\ UNCHANGED <<issued, used>>
           ELSE LET access == create_access_token(email, now)
                    refresh == create_refresh_token(email, now)
                IN  /\ users' = update_token(email, refresh)
                    /\ issued' = issued \cup {refresh}
                    /\ used' = used \cup {token}
                    /\ resp' = TokenResp("refresh_token", email, access, refresh)

(***************************************************************************)
(* GET /auth/confirmed_email/{token}                                       *)
(***************************************************************************)
\* confirmed_email without the early return for a confirmed principal.
confirmed_email_no_early_return(token) ==
    /\ AuthFrame
    /\ UNCHANGED <<now, issued, mailed, used>>
    /\ LET v == get_email_from_token(token, now)
           email == v.sub
       IN  IF ~v.ok
           THEN /\ resp' = AuthResp("confirmed_email", "", 422, v.err)
                /\ UNCHANGED users
           ELSE IF ~Exists(email)
           THEN /\ resp' = AuthResp("confirmed_email", email, 400, "VerificationError")
                /\ UNCHANGED users
           ELSE /\ users' = confirmed_email_repo(email)
                /\ resp' = AuthResp("confirmed_email", email, 200, "EmailConfirmed")

confirmed_email(token) ==
    /\ AuthFrame
    /\ UNCHANGED <<now, issued, mailed, used>>
    /\ LET v == get_email_from_token(token, now)
           email == v.sub
       IN  IF ~v.ok
           THEN /\ resp' = AuthResp("confirmed_email", "", 422, v.err)
                /\ UNCHANGED users
           ELSE IF ~Exists(email)
           THEN /\ resp' = AuthResp("confirmed_email", email, 400, "VerificationError")
                /\ UNCHANGED users
           ELSE IF users[email].confirmed
           THEN /\ resp' = AuthResp("confirmed_email", email, 200, "AlreadyConfirmed")
                /\ UNCHANGED users
           ELSE /\ users' = confirmed_email_repo(email)
                /\ resp' = AuthResp("confirmed_email", email, 200, "EmailConfirmed")

(***************************************************************************)
(* POST /auth/request_email                                                *)
(***************************************************************************)
request_email(email) ==
    /\ AuthFrame
    /\ UNCHANGED <<now, users, issued, used>>
    /\ IF ~Exists(email)
       THEN \* user is None: user.confirmed raises AttributeError
            /\ resp' = AuthResp("request_email", email, 500, "Unhandled")
            /\ UNCHANGED mailed
       ELSE IF users[email].confirmed
       THEN /\ resp' = AuthResp("request_email", email, 200, "AlreadyConfirmed")
            /\ UNCHANGED mailed
       ELSE /\ mailed' = mailed \cup {create_email_token(email, now)}
            /\ resp' = AuthResp("request_email", email, 200, "CheckYourEmail")

\* The clock advances.
Tick ==
    /\ now < MaxTime
    /\ now' = now + 1
    /\ UNCHANGED <<users, contacts, next_id, today, cache, issued, mailed, used, lookups, inflight, resp>>

(***************************************************************************)
(* Calendar dates, as datetime.date computes with them.                    *)
(***************************************************************************)
Date(y, m, d) == [y |-> y, m |-> m, d |-> d]

IsLeap(y) == (y % 4 = 0) /\ ((y % 100 # 0) \/ (y % 400 = 0))

DaysBeforeMonth(y, m) ==
    LET cum == <<0, 31, 59, 90, 120, 151, 181, 212, 243, 273, 304, 334>>
    IN  cum[m] + (IF m > 2 /\ IsLeap(y) THEN 1 ELSE 0)

DaysBeforeYear(y) ==
    LET p == y - 1 IN p * 365 + (p \div 4) - (p \div 100) + (p \div 400)

\* date.toordinal()
ToOrdinal(date) == DaysBeforeYear(date.y) + DaysBeforeMonth(date.y, date.m) + date.d

NoRows == [x \in {} |-> 0]

NoLookups == [e \in Emails |-> [n |-> 0, at |-> 0]]

Init ==
    /\ users = NoRows
    /\ contacts = NoRows
    /\ next_id = 1
    /\ today = Date(2024, 6, 1)
    /\ cache = NoRows
    /\ now = 0
    /\ issued = {}
    /\ mailed = {}
    /\ used = {}
    /\ lookups = NoLookups
    /\ inflight = NoRows
    /\ resp = NoResp

Next ==
    \/ \E email \in SignupEmails : signup(email, SignupPassword)
    \/ \E email \in Emails, password \in Passwords : login(email, password)
    \/ \E token \in Presentable : refresh_token(token)
    \/ \E token \in Presentable : confirmed_email(token)
    \/ \E email \in Emails : request_email(email)
    \/ Tick

Spec == Init /\ [][Next]_vars

(***************************************************************************)
(* POST /auth/signup as the steps requests interleave at: the existence    *)
(* check and the creation are two awaited storage calls. The users table   *)
(* has a unique constraint on email.                                       *)
(***************************************************************************)
MaxSignups == 2
SignupSlots == 1..MaxSignups

\* INSERT that replaces the row of an e-mail that is already there.
insert_user_replacing(email, hashed) ==
    [ok |-> TRUE, table |-> create_user(email, hashed)]

\* INSERT into users: refused (IntegrityError) when a row has the e-mail.
insert_user(email, hashed) ==
    IF Exists(email)
    THEN [ok |-> FALSE, table |-> users]
    ELSE [ok |-> TRUE, table |-> create_user(email, hashed)]

\* signup up to the existence check: get_user_by_email, 409 if there is one.
signup_check(slot, email, password) ==
    /\ slot \notin DOMAIN inflight
    /\ UNCHANGED <<contacts, next_id, today, cache, lookups>>
    /\ UNCHANGED <<now, issued, used, users, mailed>>
    /\ IF Exists(email)
       THEN /\ resp' = AuthResp("signup", email, 409, "AccountAlreadyExists")
            /\ UNCHANGED inflight
       ELSE /\ inflight' = [s \in DOMAIN inflight \cup {slot} |->
                              IF s = slot
                              THEN [pc |-> "create", email |-> email,
                                    password |-> get_password_hash(password)]
                              ELSE inflight[s]]
            /\ UNCHANGED resp

\* signup from create_user on: the row is inserted, the confirmation
\* e-mail queued and the new user returned; a refused insert raises.
signup_create(slot) ==
    /\ slot \in DOMAIN inflight
    /\ inflight[slot].pc = "create"
    /\ UNCHANGED <<contacts, next_id, today, cache, lookups>>
    /\ UNCHANGED <<now, issued, used>>
    /\ inflight' = [s \in DOMAIN inflight \ {slot} |-> inflight[s]]
    /\ LET email == inflight[slot].email
           done == insert_user(email, inflight[slot].password)
       IN  /\ users' = done.table
           /\ IF done.ok
              THEN /\ mailed' = mailed \cup {create_email_token(email, now)}
                   /\ resp' = AuthResp("signup", email, 201, "")
              ELSE /\ UNCHANGED mailed
                   /\ resp' = AuthResp("signup", email, 500, "StorageError")

NextSignup ==
    \/ \E slot \in SignupSlots, email \in Emails :
          signup_check(slot, email, SignupPassword)
    \/ \E slot \in SignupSlots : signup_create(slot)
    \/ \E token \in Presentable : confirmed_email(token)
    \/ Tick

SpecSignup == Init /\ [][NextSignup]_vars

(***************************************************************************)
(* Text, as a sequence of characters, and ILIKE '%query%'.                 *)
(***************************************************************************)
UpperCase == <<"A","B","C","D","E","F","G","H","I","J","K","L","M",
               "N","O","P","Q","R","S","T","U","V","W","X","Y","Z">>
LowerCase == <<"a","b","c","d","e","f","g","h","i","j","k","l","m",
               "n","o","p","q","r","s","t","u","v","w","x","y","z">>

LowerOf ==
    [c \in {UpperCase[i] : i \in 1..26} |->
        LowerCase[CHOOSE i \in 1..26 : UpperCase[i] = c]]

LowerChar(c) == IF c \in DOMAIN LowerOf THEN LowerOf[c] ELSE c

Lower(str) == [i \in 1..Len(str) |-> LowerChar(str[i])]

Contains(str, sub) ==
    \E k \in 0..(Len(str) - Len(sub)) :
        \A i \in 1..Len(sub) : str[k + i] = sub[i]

\* column ILIKE '%query%' (queries without the wildcards % and _)
ilike(str, query) == Contains(Lower(str), Lower(query))

(***************************************************************************)
(* The contacts repository (src/src/repository/contacts.py). A query       *)
(* returns the set of ids of the rows it selects; 0 stands for None.       *)
(***************************************************************************)
None == 0

Min(a, b) == IF a < b THEN a ELSE b

Max(a, b) == IF a > b THEN a ELSE b

\* .offset(offset).limit(limit) of a statement without ORDER BY: the rows
\* come in an order the database chooses, so any selection of the right
\* size is a possible result.
OffsetLimit(rows, offset, limit) ==
    {r \in SUBSET rows :
        Cardinality(r) = Min(limit, Max(0, Cardinality(rows) - offset))}

OwnedBy(user) == {id \in DOMAIN contacts : contacts[id].user = user.id}

repositories_contacts_get_contacts(limit, offset, user) ==
    OffsetLimit(OwnedBy(user), offset, limit)

repositories_contacts_get_all_contacts(limit, offset) ==
    OffsetLimit(DOMAIN contacts, offset, limit)

repositories_contacts_get_contact(contact_id, user) ==
    IF contact_id \in OwnedBy(user) THEN contact_id ELSE None

NewContact(body, user) ==
    [id |-> next_id,
     user |-> user.id,
     firstname |-> body.firstname,
     lastname |-> body.lastname,
     email |-> body.email,
     phone |-> body.phone,
     birthday |-> body.birthday,
     additional_data |-> body.additional_data]

repositories_contacts_create_contact(body, user) ==
    [id \in DOMAIN contacts \cup {next_id} |->
        IF id = next_id THEN NewContact(body, user) ELSE contacts[id]]

UpdatedContact(contact, body) ==
    [contact EXCEPT !.firstname = body.firstname,
                    !.lastname = body.lastname,
                    !.email = body.email,
                    !.phone = body.phone,
                    !.birthday = body.birthday]

\* The call's outcome: the table it leaves, and the contact it returns.
repositories_contacts_update_contact(contact_id, body, user) ==
    IF contact_id \in OwnedBy(user)
    THEN [table |-> [contacts EXCEPT
                        ![contact_id] = UpdatedContact(contacts[contact_id], body)],
          contact |-> contact_id]
    ELSE [table |-> contacts, contact |-> None]

\* delete_contact selecting by id alone.
repositories_contacts_delete_contact_by_id(contact_id, user) ==
    IF contact_id \in DOMAIN contacts
    THEN [table |-> [id \in DOMAIN contacts \ {contact_id} |-> contacts[id]],
          contact |-> contact_id, deletes |-> 1, commits |-> 1]
    ELSE [table |-> contacts, contact |-> None, deletes |-> 0, commits |-> 0]

\* delete_contact without the commit: the delete is rolled back when the
\* session closes.
repositories_contacts_delete_contact_uncommitted(contact_id, user) ==
    IF contact_id \in OwnedBy(user)
    THEN [table |-> contacts, contact |-> contact_id, deletes |-> 1, commits |-> 0]
    ELSE [table |-> contacts, contact |-> None, deletes |-> 0, commits |-> 0]

\* The call's outcome: the table it leaves, the contact it returns, and the
\* numbers of db.delete and db.commit calls it made.
repositories_contacts_delete_contact(contact_id, user) ==
    IF contact_id \in OwnedBy(user)
    THEN [table |-> [id \in DOMAIN contacts \ {contact_id} |-> contacts[id]],
          contact |-> contact_id, deletes |-> 1, commits |-> 1]
    ELSE [table |-> contacts, contact |-> None, deletes |-> 0, commits |-> 0]

repositories_contacts_search_contacts(query, user) ==
    {id \in DOMAIN contacts :
        \/ ilike(contacts[id].firstname, query)
        \/ ilike(contacts[id].lastname, query)
        \/ ilike(contacts[id].email, query)}

\* search_by_birthday comparing the month and the day only: the birthday as
\* it falls in the current year.
repositories_contacts_search_by_birthday_this_year(user) ==
    LET end_day == ToOrdinal(today) + 7
        InYear(date) == Date(today.y, date.m, date.d)
    IN  {id \in DOMAIN contacts :
            /\ ToOrdinal(InYear(contacts[id].birthday)) >= ToOrdinal(today)
            /\ ToOrdinal(InYear(contacts[id].birthday)) <= end_day}

\* search_by_birthday with the last day of the week left out.
repositories_contacts_search_by_birthday_exclusive(user) ==
    LET end_day == ToOrdinal(today) + 7
    IN  {id \in DOMAIN contacts :
            /\ ToOrdinal(contacts[id].birthday) >= ToOrdinal(today)
            /\ ToOrdinal(contacts[id].birthday) < end_day}

repositories_contacts_search_by_birthday(user) ==
    LET end_day == ToOrdinal(today) + 7
    IN  {id \in DOMAIN contacts :
            /\ ToOrdinal(contacts[id].birthday) >= ToOrdinal(today)
            /\ ToOrdinal(contacts[id].birthday) <= end_day}

(***************************************************************************)
(* The contact routes (src/src/routes/contacts.py). Each receives the      *)
(* principal the get_current_user dependency resolved.                      *)
(***************************************************************************)
\* RoleAccess(allowed_roles): the dependency passes iff the principal's
\* role is one of the allowed roles, and fails with 403 otherwise.
RoleAccess(allowed_roles, user) == user.role \in allowed_roles

\* The allow-list with the default role in it.
access_to_route_all_roles == {"admin", "moderator", "user"}

access_to_route_all == {"admin", "moderator"}

\* A response: the operation, the requesting principal, the status, the ids
\* of the contacts the body carries, and the id or query asked for.
ContactResp(op, user, status, ids, arg) ==
    [op |-> op, email |-> user.email, status |-> status, ids |-> ids, arg |-> arg]

ContactFrame == UNCHANGED <<users, cache, now, issued, mailed, used, lookups, inflight>>

get_contacts(limit, offset, user) ==
    /\ ContactFrame
    /\ UNCHANGED <<contacts, next_id, today>>
    /\ \E result \in repositories_contacts_get_contacts(limit, offset, user) :
          resp' = ContactResp("get_contacts", user, 200, result, <<>>)

get_all_contacts(limit, offset, user) ==
    /\ ContactFrame
    /\ UNCHANGED <<contacts, next_id, today>>
    /\ IF ~RoleAccess(access_to_route_all, user)
       THEN resp' = ContactResp("get_all_contacts", user, 403, {}, <<>>)
       ELSE \E result \in repositories_contacts_get_all_contacts(limit, offset) :
               resp' = ContactResp("get_all_contacts", user, 200, result, <<>>)

get_contact(contact_id, user) ==
    /\ ContactFrame
    /\ UNCHANGED <<contacts, next_id, today>>
    /\ LET contact == repositories_contacts_get_contact(contact_id, user)
       IN  IF contact = None
           THEN resp' = ContactResp("get_contact", user, 404, {}, contact_id)
           ELSE resp' = ContactResp("get_contact", user, 200, {contact}, contact_id)

create_contact(body, user) ==
    /\ next_id <= MaxContacts
    /\ ContactFrame
    /\ UNCHANGED today
    /\ contacts' = repositories_contacts_create_contact(body, user)
    /\ next_id' = next_id + 1
    /\ resp' = ContactResp("create_contact", user, 201, {next_id}, <<>>)

update_contact(body, contact_id, user) ==
    /\ ContactFrame
    /\ UNCHANGED <<next_id, today>>
    /\ LET done == repositories_contacts_update_contact(contact_id, body, user)
       IN  /\ contacts' = done.table
           /\ IF done.contact = None
              THEN resp' = ContactResp("update_contact", user, 404, {}, contact_id)
              ELSE resp' = ContactResp("update_contact", user, 200, {done.contact}, contact_id)

delete_contact(contact_id, user) ==
    /\ ContactFrame
    /\ UNCHANGED <<next_id, today>>
    /\ LET done == repositories_contacts_delete_contact(contact_id, user)
       IN  /\ contacts' = done.table
           /\ IF done.contact = None
              THEN resp' = ContactResp("delete_contact", user, 404, {}, contact_id)
              ELSE resp' = ContactResp("delete_contact", user, 204, {done.contact}, contact_id)

search_contacts(query, user) ==
    /\ ContactFrame
    /\ UNCHANGED <<contacts, next_id, today>>
    /\ resp' = ContactResp("search_contacts", user, 200,
                           repositories_contacts_search_contacts(query, user), query)

search_by_birthday(user) ==
    /\ ContactFrame
    /\ UNCHANGED <<contacts, next_id, today>>
    /\ resp' = ContactResp("search_by_birthday", user, 200,
                           repositories_contacts_search_by_birthday(user), <<>>)

\* Midnight passes: date.today() moves to the next day.
NextDay ==
    /\ today = Date(2024, 6, 1)
    /\ today' = Date(2024, 6, 2)
    /\ UNCHANGED <<users, contacts, next_id, cache, now, issued, mailed, used, lookups, inflight, resp>>

(***************************************************************************)
(* Inputs of the contact routes.                                           *)
(***************************************************************************)
Ann == <<"A", "n", "n">>
Bob == <<"B", "o", "b">>
Lee == <<"L", "e", "e">>
Ray == <<"R", "a", "y">>

Body(first, last, birthday, note) ==
    [firstname |-> first,
     lastname |-> last,
     email |-> Lower(first) \o <<"@">> \o Lower(last),
     phone |-> <<"0", "6", "7">> \o Lower(last),
     birthday |-> birthday,
     additional_data |-> note]

\* The request bodies of SpecContacts: the two contacts of the example,
\* one inside and one outside the week of 2024-06-01.
Bodies ==
    {Body(Ann, Lee, Date(2024, 6, 5), "note one"),
     Body(Bob, Ray, Date(2024, 6, 10), "note two")}

\* The request bodies of SpecBirthday: birthdays on both sides of both ends
\* of the week, and one in an earlier year.
BirthdayBodies ==
    {Body(Ann, Lee, d, "note one") :
        d \in {Date(2023, 6, 5), Date(2024, 6, 1), Date(2024, 6, 5),
               Date(2024, 6, 8), Date(2024, 6, 10)}}

UpdateBodies == {Body(Bob, Ray, Date(2024, 6, 10), "note two")}

Queries == {<<"a", "N">>}

Limits == {10}
Offsets == {0, 1}
ContactIds == 1..MaxContacts

\* The principals of SpecContacts, SpecBirthday and SpecCache: signed up,
\* confirmed, and given their roles by the administrator.
Provisioned(role_a, role_b) ==
    [e \in Emails |->
        [id |-> IF e = "a@x.io" THEN 1 ELSE 2,
         email |-> e,
         password |-> get_password_hash(SignupPassword),
         role |-> IF e = "a@x.io" THEN role_a ELSE role_b,
         confirmed |-> TRUE,
         refresh_token |-> NoToken,
         avatar |-> "gravatar"]]

Principals == {users[e] : e \in DOMAIN users}

NoContactResp == [op |-> "none", email |-> "", status |-> 0, ids |-> {}, arg |-> <<>>]

InitContacts ==
    /\ users \in {Provisioned(r, "user") : r \in Roles}
    /\ contacts = NoRows
    /\ next_id = 1
    /\ today = Date(2024, 6, 1)
    /\ cache = NoRows
    /\ now = 0
    /\ issued = {}
    /\ mailed = {}
    /\ used = {}
    /\ lookups = NoLookups
    /\ inflight = NoRows
    /\ resp = NoContactResp

NextContacts ==
    \/ \E user \in Principals, limit \in Limits, offset \in Offsets :
          get_contacts(limit, offset, user)
    \/ \E user \in Principals, limit \in Limits, offset \in Offsets :
          get_all_contacts(limit, offset, user)
    \/ \E user \in Principals, id \in ContactIds : get_contact(id, user)
    \/ \E user \in Principals, body \in Bodies : create_contact(body, user)
    \/ \E user \in Principals, id \in ContactIds, body \in UpdateBodies :
          update_contact(body, id, user)
    \/ \E user \in Principals, id \in ContactIds : delete_contact(id, user)
    \/ \E user \in Principals, query \in Queries : search_contacts(query, user)
    \/ \E user \in Principals : search_by_birthday(user)

SpecContacts == InitContacts /\ [][NextContacts]_vars

InitBirthday ==
    /\ users = Provisioned("user", "user")
    /\ contacts = NoRows
    /\ next_id = 1
    /\ today = Date(2024, 6, 1)
    /\ cache = NoRows
    /\ now = 0
    /\ issued = {}
    /\ mailed = {}
    /\ used = {}
    /\ lookups = NoLookups
    /\ inflight = NoRows
    /\ resp = NoContactResp

NextBirthday ==
    \/ \E user \in Principals, body \in BirthdayBodies : create_contact(body, user)
    \/ \E user \in Principals : search_by_birthday(user)
    \/ NextDay

SpecBirthday == InitBirthday /\ [][NextBirthday]_vars

(***************************************************************************)
(* GET /auth/refresh_token as the steps requests interleave at: the user   *)
(* row is read with one awaited storage call and the new (or cleared)      *)
(* token persisted with another.                                           *)
(***************************************************************************)
MaxRefreshes == 2
RefreshSlots == 1..MaxRefreshes

\* refresh_token up to the read of the user row: the token is decoded and
\* the row of its subject loaded into the request's session.
refresh_read(slot, token) ==
    /\ slot \notin DOMAIN inflight
    /\ UNCHANGED <<contacts, next_id, today, cache, lookups>>
    /\ UNCHANGED <<now, mailed, users, issued, used>>
    /\ LET v == decode_refresh_token(token, now)
           email == v.sub
       IN  IF ~v.ok
           THEN /\ resp' = AuthResp("refresh_token", "", 401, v.err)
                /\ UNCHANGED inflight
           ELSE IF ~Exists(email)
           THEN /\ resp' = AuthResp("refresh_token", email, 500, "Unhandled")
                /\ UNCHANGED inflight
           ELSE /\ inflight' = [s \in DOMAIN inflight \cup {slot} |->
                                  IF s = slot
                                  THEN [pc |-> "write", token |-> token,
                                        user |-> users[email]]
                                  ELSE inflight[s]]
                /\ UNCHANGED resp

\* refresh_token from the comparison on: the row read earlier is compared
\* with the presented token, and the cleared or the new token persisted.
refresh_write(slot) ==
    /\ slot \in DOMAIN inflight
    /\ inflight[slot].pc = "write"
    /\ UNCHANGED <<contacts, next_id, today, cache, lookups>>
    /\ UNCHANGED <<now, mailed>>
    /\ inflight' = [s \in DOMAIN inflight \ {slot} |-> inflight[s]]
    /\ LET token == inflight[slot].token
           user == inflight[slot].user
           email == user.email
       IN  IF user.refresh_token # token
           THEN /\ users' = update_token(email, NoToken)
                /\ resp' = AuthResp("refresh_token", email, 401, "RefreshTokenRevoked")
                /\ UNCHANGED <<issued, used>>
           ELSE LET access == create_access_token(email, now)
                    refresh == create_refresh_token(email, now)
                IN  /\ users' = update_token(email, refresh)
                    /\ issued' = issued \cup {refresh}
                    /\ used' = used \cup {token}
                    /\ resp' = TokenResp("refresh_token", email, access, refresh)

InitRefresh ==
    /\ users = Provisioned("user", "user")
    /\ contacts = NoRows
    /\ next_id = 1
    /\ today = Date(2024, 6, 1)
    /\ cache = NoRows
    /\ now = 0
    /\ issued = {}
    /\ mailed = {}
    /\ used = {}
    /\ lookups = NoLookups
    /\ inflight = NoRows
    /\ resp = NoResp

NextRefresh ==
    \/ \E email \in SignupEmails : login(email, SignupPassword)
    \/ \E slot \in RefreshSlots, token \in Presentable : refresh_read(slot, token)
    \/ \E slot \in RefreshSlots : refresh_write(slot)
    \/ Tick

SpecRefresh == InitRefresh /\ [][NextRefresh]_vars

(***************************************************************************)
(* The identity cache and the user routes (src/src/routes/users.py).       *)
(* A cache entry holds the pickled user row and the time its key expires   *)
(* (NoTTL: the key has no expiry). Expired keys are gone.                  *)
(***************************************************************************)
CacheTTL == 300
MaxCacheTime == 600
ClockStep == 150
MaxRequests == 1
MaxConcurrent == 2
NoTTL == -1

AvatarUrls == {"url1", "url2"}
Slots == 1..MaxRequests
ConcurrentSlots == 1..MaxConcurrent

\* SET key value: the value is stored and the key's expiry is dropped.
cache_set(store, key, user) ==
    [k \in DOMAIN store \cup {key} |->
        IF k = key THEN [user |-> user, expire_at |-> NoTTL] ELSE store[k]]

\* EXPIRE key seconds: an existing key expires that many seconds from now.
cache_expire(store, key, seconds) ==
    IF key \in DOMAIN store
    THEN [store EXCEPT ![key].expire_at = now + seconds]
    ELSE store

\* The keys of the store that are still there at time t.
Unexpired(store, t) ==
    [k \in {x \in DOMAIN store : store[x].expire_at = NoTTL \/ store[x].expire_at > t}
        |-> store[k]]

CountLookup(email) ==
    [lookups EXCEPT ![email] = [n |-> lookups[email].n + 1, at |-> now]]

\* auth_service.get_current_user: the principal of a bearer token, from the
\* cache if it is there, else from storage and then cached for CacheTTL.
\* The outcome: the principal, the cache and the lookup record it leaves.
get_current_user(token) ==
    LET v == verify(token, "access_token", now)
        email == v.sub
    IN  IF ~v.ok
        THEN [ok |-> FALSE, err |-> "Unauthorized", email |-> "", source |-> "",
              user |-> <<>>, cache |-> cache, lookups |-> lookups]
        ELSE IF email \in DOMAIN cache
        THEN [ok |-> TRUE, err |-> "", email |-> email, source |-> "cache",
              user |-> cache[email].user, cache |-> cache, lookups |-> lookups]
        ELSE IF ~Exists(email)
        THEN [ok |-> FALSE, err |-> "Unauthorized", email |-> email, source |-> "db",
              user |-> <<>>, cache |-> cache, lookups |-> CountLookup(email)]
        ELSE [ok |-> TRUE, err |-> "", email |-> email, source |-> "db",
              user |-> users[email],
              cache |-> cache_expire(cache_set(cache, email, users[email]), email, CacheTTL),
              lookups |-> CountLookup(email)]

\* A resolver that reads the principal from storage on every call.
get_user_from_storage(token) ==
    LET v == verify(token, "access_token", now)
        email == v.sub
    IN  IF ~v.ok \/ ~Exists(email)
        THEN [ok |-> FALSE, err |-> "Unauthorized", email |-> "", source |-> "",
              user |-> <<>>, cache |-> cache, lookups |-> lookups]
        ELSE [ok |-> TRUE, err |-> "", email |-> email, source |-> "db",
              user |-> users[email], cache |-> cache, lookups |-> CountLookup(email)]

update_avatar_url(email, url) == [users EXCEPT ![email].avatar = url]

\* A response: the operation, the status, the principal, where the resolver
\* found it ("cache" or "db"), its avatar, and the time of the response.
UserResp(op, status, email, source, avatar) ==
    [op |-> op, status |-> status, email |-> email, source |-> source,
     avatar |-> avatar, at |-> now]

NoUserResp == UserResp("none", 0, "", "", "")

UserFrame == UNCHANGED <<contacts, next_id, today, issued, mailed, used>>

\* GET /users/me answered without the cache.
users_me_uncached(token) ==
    /\ UserFrame
    /\ UNCHANGED <<users, now, inflight>>
    /\ LET r == get_user_from_storage(token)
       IN  /\ cache' = r.cache
           /\ lookups' = r.lookups
           /\ IF r.ok
              THEN resp' = UserResp("me", 200, r.email, r.source, r.user.avatar)
              ELSE resp' = UserResp("me", 401, r.email, r.source, "")

\* GET /users/me
users_me(token) ==
    /\ UserFrame
    /\ UNCHANGED <<users, now, inflight>>
    /\ LET r == get_current_user(token)
       IN  /\ cache' = r.cache
           /\ lookups' = r.lookups
           /\ IF r.ok
              THEN resp' = UserResp("me", 200, r.email, r.source, r.user.avatar)
              ELSE resp' = UserResp("me", 401, r.email, r.source, "")

\* PATCH /users/avatar, up to the storage write: the principal is resolved,
\* the file uploaded, and the row's avatar set to the uploaded image's url.
avatar_update(slot, token, url) ==
    /\ slot \notin DOMAIN inflight
    /\ UserFrame
    /\ UNCHANGED now
    /\ LET r == get_current_user(token)
       IN  /\ lookups' = r.lookups
           /\ cache' = r.cache
           /\ IF r.ok
              THEN /\ users' = update_avatar_url(r.user.email, url)
                   /\ inflight' = [s \in DOMAIN inflight \cup {slot} |->
                                     IF s = slot
                                     THEN [pc |-> "set", user |-> users'[r.user.email]]
                                     ELSE inflight[s]]
                   /\ UNCHANGED resp
              ELSE /\ resp' = UserResp("avatar", 401, r.email, r.source, "")
                   /\ UNCHANGED <<users, inflight>>

\* auth_service.cache.set(user.email, pickle.dumps(user))
avatar_cache_set(slot) ==
    /\ slot \in DOMAIN inflight
    /\ inflight[slot].pc = "set"
    /\ UserFrame
    /\ UNCHANGED <<users, now, lookups, resp>>
    /\ cache' = cache_set(cache, inflight[slot].user.email, inflight[slot].user)
    /\ inflight' = [inflight EXCEPT ![slot].pc = "expire"]

\* auth_service.cache.expire(user.email, 300), and the response
avatar_cache_expire(slot) ==
    /\ slot \in DOMAIN inflight
    /\ inflight[slot].pc = "expire"
    /\ UserFrame
    /\ UNCHANGED <<users, now, lookups>>
    /\ cache' = cache_expire(cache, inflight[slot].user.email, CacheTTL)
    /\ inflight' = [s \in DOMAIN inflight \ {slot} |-> inflight[s]]
    /\ resp' = UserResp("avatar", 200, inflight[slot].user.email, "",
                        inflight[slot].user.avatar)

\* PATCH /users/avatar cut short between its cache operations: the Redis
\* call that was next raises (the connection is lost, the worker is
\* stopped), the exception ends the request with a 500, and what the
\* request had written so far stays.
avatar_abandon(slot) ==
    /\ slot \in DOMAIN inflight
    /\ UserFrame
    /\ UNCHANGED <<users, now, lookups, cache>>
    /\ inflight' = [s \in DOMAIN inflight \ {slot} |-> inflight[s]]
    /\ resp' = UserResp("avatar", 500, inflight[slot].user.email, "", "")

\* Time passes; the keys whose expiry is reached are gone.
Elapse ==
    /\ now + ClockStep <= MaxCacheTime
    /\ now' = now + ClockStep
    /\ cache' = Unexpired(cache, now')
    /\ UNCHANGED <<users, contacts, next_id, today, issued, mailed, used, lookups, inflight, resp>>

\* The bearer tokens of SpecCache: the client presents an access token it
\* has just been issued, or a string the service never signed.
Clients == {"a@x.io"}

BearerTokens == {create_access_token(e, now) : e \in Clients} \cup {Garbage}

InitCache ==
    /\ users = Provisioned("user", "user")
    /\ contacts = NoRows
    /\ next_id = 1
    /\ today = Date(2024, 6, 1)
    /\ cache = NoRows
    /\ now = 0
    /\ issued = {}
    /\ mailed = {}
    /\ used = {}
    /\ lookups = NoLookups
    /\ inflight = NoRows
    /\ resp = NoUserResp

NextCache ==
    \/ \E token \in BearerTokens : users_me(token)
    \/ \E slot \in Slots, token \in BearerTokens, url \in AvatarUrls :
          avatar_update(slot, token, url)
    \/ \E slot \in Slots : avatar_cache_set(slot)
    \/ \E slot \in Slots : avatar_cache_expire(slot)
    \/ \E slot \in Slots : avatar_abandon(slot)
    \/ Elapse

SpecCache == InitCache /\ [][NextCache]_vars

\* The user routes with avatar updates running side by side, every request
\* running to completion.
NextAvatar ==
    \/ \E token \in BearerTokens : users_me(token)
    \/ \E slot \in ConcurrentSlots, token \in BearerTokens, url \in AvatarUrls :
          avatar_update(slot, token, url)
    \/ \E slot \in ConcurrentSlots : avatar_cache_set(slot)
    \/ \E slot \in ConcurrentSlots : avatar_cache_expire(slot)
    \/ Elapse

SpecAvatar == InitCache /\ [][NextAvatar]_vars

(***************************************************************************)
(* Properties of the contact routes.                                       *)
(***************************************************************************)
Owner(id) == contacts[id].user

Requester == users[resp.email]

\* C1: for distinct principals A and B and a contact c of B, whatever A's
\* role, A's get_contact, update_contact and delete_contact on c's id each
\* end in 404 "not found", carry no contact, and leave the store as it was.
C1_ForeignContactIsNotFound ==
    [][\A a \in Principals : \A id \in DOMAIN contacts :
          Owner(id) # a.id =>
             /\ get_contact(id, a) =>
                   /\ resp'.status = 404
                   /\ resp'.ids = {}
                   /\ contacts' = contacts
             /\ \A body \in Bodies :
                   update_contact(body, id, a) =>
                      /\ resp'.status = 404
                      /\ resp'.ids = {}
                      /\ contacts' = contacts
             /\ delete_contact(id, a) =>
                   /\ resp'.status = 404
                   /\ resp'.ids = {}
                   /\ contacts' = contacts]_vars

\* A's delete of a contact of B ended in 404 and the contact is still there.
C1_Witness ==
    /\ resp.op = "delete_contact"
    /\ resp.status = 404
    /\ resp.arg \in DOMAIN contacts
    /\ Owner(resp.arg) # Requester.id
    /\ Requester.role = "admin"

\* C2: every contact a non-privileged query (get_contacts, get_contact,
\* search_contacts, search_by_birthday) returns is owned by the requester.
C2_QueriesReturnOwnContacts ==
    resp.op \in {"get_contacts", "get_contact", "search_contacts", "search_by_birthday"}
        => \A id \in resp.ids : id \in DOMAIN contacts /\ Owner(id) = Requester.id

\* C5: get_all_contacts answers 200 with contacts of all owners, the owner
\* filter not applied, only for a moderator or an admin; for a principal of
\* role user it answers 403 and carries no contact.
C5_ListAllIsRoleGated ==
    resp.op = "get_all_contacts" =>
        IF Requester.role \in {"moderator", "admin"}
        THEN /\ resp.status = 200
             /\ resp.ids \subseteq DOMAIN contacts
             /\ \/ resp.ids = DOMAIN contacts
                \/ Cardinality(resp.ids) = Cardinality(DOMAIN contacts) - 1
        ELSE /\ resp.status = 403
             /\ resp.ids = {}

\* A privileged principal listed a contact that is not its own.
C5_Witness ==
    /\ resp.op = "get_all_contacts"
    /\ resp.status = 200
    /\ \E id \in resp.ids : Owner(id) # Requester.id

\* The 2024-06 dates from day to day + 7, written out.
WeekOfJune(day) == {Date(2024, 6, d) : d \in day.d .. day.d + 7}

\* C9: search_by_birthday returns a contact iff its birthday falls within
\* the next 7 days, today included; on 2024-06-01 a contact dated
\* 2024-06-05 is returned and a contact dated 2024-06-10 is not.
C9_BirthdayWithinNextWeek ==
    [][\A user \in Principals :
          search_by_birthday(user) =>
             /\ resp'.ids = {id \in DOMAIN contacts :
                               contacts[id].birthday \in WeekOfJune(today)}
             /\ today = Date(2024, 6, 1) =>
                   \A id \in DOMAIN contacts :
                      /\ contacts[id].birthday = Date(2024, 6, 5) => id \in resp'.ids
                      /\ contacts[id].birthday = Date(2024, 6, 10) => id \notin resp'.ids]_vars

\* On 2024-06-01 the search returned a contact dated a week ahead and left
\* out a contact dated 2024-06-10.
C9_Witness ==
    /\ resp.op = "search_by_birthday"
    /\ today = Date(2024, 6, 1)
    /\ \E id \in resp.ids : contacts[id].birthday = Date(2024, 6, 8)
    /\ \E id \in DOMAIN contacts \ resp.ids : contacts[id].birthday = Date(2024, 6, 10)

(***************************************************************************)
(* Properties of the authentication routes.                                *)
(***************************************************************************)
Stored(email) == users[email].refresh_token

\* A refresh-intent token that passes verification at the present time.
ValidRefresh(token) == token.scope = "refresh_token" /\ now <= token.iat + RefreshTTL

\* A confirmation token that passes verification at the present time.
ValidConfirm(token) == token.scope = "email_token" /\ now <= token.iat + ConfirmTTL

\* C3: once a refresh has succeeded with refresh token t, every later
\* refresh presenting t fails with RefreshTokenRevoked, whatever happened
\* in between.
C3_UsedRefreshTokenIsRevoked ==
    [][\A token \in used :
          refresh_token(token) => resp'.detail = "RefreshTokenRevoked"]_vars

\* C4: a refresh succeeds only with the stored refresh_token itself; a
\* verified refresh-intent token that differs from the stored one is
\* rejected with no tokens issued and the stored refresh_token cleared, and
\* from then on every refresh for the principal fails until a login succeeds.
C4_MismatchClearsStoredToken ==
    [][/\ \A token \in Presentable :
             refresh_token(token) =>
                /\ resp'.status = 200 =>
                      Exists(token.sub) /\ Stored(token.sub) = token
                /\ (ValidRefresh(token) /\ Exists(token.sub) /\ Stored(token.sub) # token) =>
                      /\ resp'.status = 401
                      /\ resp'.detail = "RefreshTokenRevoked"
                      /\ resp'.access_token = NoToken
                      /\ resp'.refresh_token = NoToken
                      /\ issued' = issued
                      /\ Stored(token.sub)' = NoToken
                /\ (Exists(token.sub) /\ Stored(token.sub) = NoToken) =>
                      resp'.status # 200
       /\ \A email \in DOMAIN users :
             (Stored(email) = NoToken /\ Stored(email)' # NoToken) =>
                /\ resp'.op = "login"
                /\ resp'.status = 200
                /\ resp'.email = email]_vars

\* A refresh was rejected for a principal that had logged in, and the
\* stored refresh_token is cleared.
C4_Witness ==
    /\ resp.op = "refresh_token"
    /\ resp.detail = "RefreshTokenRevoked"
    /\ Stored(resp.email) = NoToken
    /\ \E token \in issued : token.sub = resp.email /\ ValidRefresh(token)

\* C6: login fails with UserNotFound when no principal has the email, with
\* EmailNotConfirmed when the principal is unconfirmed (whatever the
\* password), with InvalidCredentials when the principal is confirmed and
\* the password does not verify; a failed login issues no tokens and leaves
\* the stored refresh_token as it was.
C6_LoginFailures ==
    [][\A email \in Emails, password \in Passwords :
          login(email, password) =>
             /\ ~Exists(email) => resp'.detail = "UserNotFound"
             /\ (Exists(email) /\ ~users[email].confirmed) =>
                   resp'.detail = "EmailNotConfirmed"
             /\ (Exists(email) /\ users[email].confirmed
                   /\ users[email].password # get_password_hash(password)) =>
                   resp'.detail = "InvalidCredentials"
             /\ resp'.detail # "" =>
                   /\ resp'.status = 401
                   /\ resp'.access_token = NoToken
                   /\ resp'.refresh_token = NoToken
                   /\ resp'.token_type = ""
                   /\ issued' = issued
                   /\ users' = users]_vars

\* A login of an unconfirmed principal with the right password failed.
C6_Witness ==
    /\ resp.op = "login"
    /\ resp.detail = "EmailNotConfirmed"
    /\ Exists(resp.email)
    /\ ~users[resp.email].confirmed

\* C7: a login of an existing, confirmed principal with the correct
\* password answers with an access token and a refresh token, token_type
\* "bearer", and the stored refresh_token is the refresh token returned.
C7_LoginIssuesAndStoresTokens ==
    [][\A email \in Emails, password \in Passwords :
          (/\ login(email, password)
           /\ Exists(email)
           /\ users[email].confirmed
           /\ users[email].password = get_password_hash(password)) =>
             /\ resp'.status = 200
             /\ resp'.token_type = "bearer"
             /\ resp'.access_token.scope = "access_token"
             /\ resp'.access_token.sub = email
             /\ resp'.refresh_token.scope = "refresh_token"
             /\ resp'.refresh_token.sub = email
             /\ Stored(email)' = resp'.refresh_token]_vars

\* A login succeeded and the stored refresh_token is the one returned.
C7_Witness ==
    /\ resp.op = "login"
    /\ resp.status = 200
    /\ resp.token_type = "bearer"
    /\ Stored(resp.email) = resp.refresh_token

\* C8: confirm_email with a valid confirmation token turns confirmed from
\* false to true the first time and answers "already confirmed", changing
\* nothing, the second time; no step turns confirmed back to false.
C8_ConfirmEmailIdempotent ==
    [][/\ \A token \in Presentable :
             (confirmed_email(token) /\ ValidConfirm(token) /\ Exists(token.sub)) =>
                IF users[token.sub].confirmed
                THEN /\ resp'.status = 200
                     /\ resp'.detail = "AlreadyConfirmed"
                     /\ users' = users
                ELSE /\ resp'.status = 200
                     /\ resp'.detail = "EmailConfirmed"
                     /\ users' = [users EXCEPT ![token.sub].confirmed = TRUE]
       /\ \A email \in DOMAIN users :
             users[email].confirmed =>
                email \in DOMAIN users' /\ users'[email].confirmed]_vars

\* A second confirmation of a confirmed principal was answered.
C8_Witness ==
    /\ resp.op = "confirmed_email"
    /\ resp.detail = "AlreadyConfirmed"
    /\ users[resp.email].confirmed

(***************************************************************************)
(* Properties of the identity cache.                                       *)
(***************************************************************************)
\* C10: resolving the same principal twice within the cache TTL (300 s)
\* makes at most one storage lookup, the second call being answered from
\* the cache; a call made once the cached entry has expired makes a new
\* storage lookup and caches the principal for the TTL again.
C10_OneLookupPerTTL ==
    [][/\ \A token \in BearerTokens :
             (users_me(token) /\ token.scope = "access_token") =>
                IF token.sub \in DOMAIN cache
                THEN /\ resp'.source = "cache"
                     /\ lookups' = lookups
                     /\ cache' = cache
                ELSE /\ resp'.source = "db"
                     /\ lookups'[token.sub].n = lookups[token.sub].n + 1
                     /\ token.sub \in DOMAIN cache'
                     /\ cache'[token.sub].expire_at = now + 300
       /\ \A email \in Emails :
             (lookups'[email].n > lookups[email].n /\ lookups[email].n > 0) =>
                now - lookups[email].at >= 300
       /\ \A email \in DOMAIN cache :
             (cache[email].expire_at # NoTTL /\ cache[email].expire_at <= now') =>
                email \notin DOMAIN cache']_vars

\* After a second storage lookup, made once the first entry had expired, a
\* later call within the TTL was answered from the cache.
C10_Witness ==
    /\ resp.op = "me"
    /\ resp.source = "cache"
    /\ lookups[resp.email].n = 2
    /\ resp.at > lookups[resp.email].at
    /\ resp.at < lookups[resp.email].at + 300

\* C11: every entry of the identity cache is keyed by the e-mail of the
\* principal it holds and expires at most 300 seconds from now, in every
\* reachable state: between the set and the expire of an avatar update and
\* after a request was cut short as well.
C11_CacheEntriesHaveBoundedTTL ==
    \A key \in DOMAIN cache :
        /\ cache[key].user.email = key
        /\ cache[key].expire_at # NoTTL
        /\ cache[key].expire_at <= now + 300

\* C20: once every avatar update under way has completed, the principal
\* cached under an e-mail, if there is one, has the avatar of the stored
\* principal.
C20_CacheAgreesWithStorage ==
    inflight = NoRows =>
        \A key \in DOMAIN cache : cache[key].user.avatar = users[key].avatar

(***************************************************************************)
(* Further properties of the authentication routes.                        *)
(***************************************************************************)
\* An access-intent token that passes the expiry check at the present time.
UnexpiredAccess(token) == token.scope = "access_token" /\ now <= token.iat + AccessTTL

C13_EmailsAreUnique ==
    [][/\ \A slot \in SignupSlots, email \in Emails :
             (signup_check(slot, email, SignupPassword) /\ Exists(email)) =>
                /\ resp'.status = 409
                /\ resp'.detail = "AccountAlreadyExists"
                /\ users' = users
                /\ inflight' = inflight
                /\ mailed' = mailed
       /\ \A slot \in SignupSlots :
             (signup_create(slot) /\ Exists(inflight[slot].email)) =>
                /\ users' = users
                /\ mailed' = mailed
                /\ resp'.status # 201
       /\ \A slot \in SignupSlots :
             (signup_create(slot) /\ ~Exists(inflight[slot].email)) =>
                /\ resp'.status = 201
                /\ DOMAIN users' = DOMAIN users \cup {inflight[slot].email}
                /\ \A e \in DOMAIN users : users'[e] = users[e]
       /\ DOMAIN users \subseteq DOMAIN users'
       /\ \A e \in DOMAIN users' : users'[e].email = e
       /\ Cardinality({users'[e].id : e \in DOMAIN users'}) = Cardinality(DOMAIN users')]_vars

\* Of two signups for one e-mail that both passed the check, the second
\* creation was refused, after the first principal had been confirmed.
C13_Witness ==
    /\ resp.op = "signup"
    /\ resp.status = 500
    /\ Exists(resp.email)
    /\ users[resp.email].confirmed

(***************************************************************************)
(* Further properties of the contact routes.                               *)
(***************************************************************************)
\* C14: a successful update_contact by the owner leaves the stored contact
\* with every field of the request body (firstname, lastname, email, phone,
\* birthday, additional_data) and with its id and owner unchanged.
C14_UpdateStoresWholeBody ==
    [][\A user \in Principals, id \in DOMAIN contacts, body \in UpdateBodies :
          (update_contact(body, id, user) /\ Owner(id) = user.id) =>
             /\ resp'.status = 200
             /\ contacts'[id].firstname = body.firstname
             /\ contacts'[id].lastname = body.lastname
             /\ contacts'[id].email = body.email
             /\ contacts'[id].phone = body.phone
             /\ contacts'[id].birthday = body.birthday
             /\ contacts'[id].additional_data = body.additional_data
             /\ contacts'[id].id = id
             /\ contacts'[id].user = user.id]_vars

\* C16: delete_contact by the owner of an existing contact makes one delete
\* and one commit, removes that contact and no other, and returns it; on an
\* id that does not exist or is not the requester's it makes no delete and
\* no commit, changes nothing and answers 404. An id that is gone stays
\* gone, and get_contact and update_contact on it answer 404.
C16_DeleteRemovesExactlyOne ==
    [][/\ \A user \in Principals, id \in ContactIds :
             delete_contact(id, user) =>
                LET done == repositories_contacts_delete_contact(id, user)
                IN  IF id \in DOMAIN contacts /\ Owner(id) = user.id
                    THEN /\ resp'.status = 204
                         /\ resp'.ids = {id}
                         /\ done.deletes = 1
                         /\ done.commits = 1
                         /\ DOMAIN contacts' = DOMAIN contacts \ {id}
                         /\ \A other \in DOMAIN contacts' : contacts'[other] = contacts[other]
                    ELSE /\ resp'.status = 404
                         /\ resp'.ids = {}
                         /\ done.deletes = 0
                         /\ done.commits = 0
                         /\ contacts' = contacts
       /\ \A user \in Principals, id \in ContactIds \ DOMAIN contacts :
             /\ get_contact(id, user) => resp'.status = 404
             /\ \A body \in UpdateBodies :
                   update_contact(body, id, user) =>
                      resp'.status = 404 /\ contacts' = contacts
       /\ \A id \in ContactIds \ DOMAIN contacts :
             id < next_id => id \notin DOMAIN contacts']_vars

\* After the owner's delete of a contact, a get of its id was answered 404
\* while another contact is still stored.
C16_Witness ==
    /\ resp.op = "get_contact"
    /\ resp.status = 404
    /\ resp.arg < next_id
    /\ resp.arg \notin DOMAIN contacts
    /\ DOMAIN contacts # {}

\* C15: request_email for an e-mail of no principal answers the caller
\* with a message, not with an unhandled failure, and queues no e-mail; for
\* a confirmed principal it answers "already confirmed" and queues no e-mail.
C15_RequestEmailUnknownIsHandled ==
    [][\A email \in Emails :
          request_email(email) =>
             /\ ~Exists(email) =>
                   /\ resp'.status # 500
                   /\ mailed' = mailed
             /\ (Exists(email) /\ users[email].confirmed) =>
                   /\ resp'.detail = "AlreadyConfirmed"
                   /\ mailed' = mailed]_vars

\* C17: of the refresh requests under way with one refresh token, one
\* succeeds: once a refresh has succeeded with a token and rotated the
\* stored refresh_token away from it, a request that presented the same
\* token does not succeed; and after a success the stored refresh_token is
\* the token returned to the caller.
C17_RefreshIsSingleUse ==
    [][\A slot \in RefreshSlots :
          refresh_write(slot) =>
             /\ (/\ inflight[slot].token \in used
                 /\ Stored(inflight[slot].user.email) # inflight[slot].token) =>
                   resp'.status # 200
             /\ resp'.status = 200 =>
                   users'[inflight[slot].user.email].refresh_token = resp'.refresh_token]_vars

\* C18: in every state a principal with a stored refresh_token is
\* confirmed, and every step that issues tokens issues them for a
\* confirmed principal.
C18_StoredTokenImpliesConfirmed ==
    [][/\ \A email \in DOMAIN users' :
             users'[email].refresh_token # NoToken => users'[email].confirmed
       /\ \A token \in issued' \ issued :
             Exists(token.sub) /\ users[token.sub].confirmed
       /\ (resp'.status = 200 /\ resp'.token_type = "bearer" /\ resp' # resp) =>
             Exists(resp'.email) /\ users[resp'.email].confirmed]_vars

\* A confirmed principal holds the refresh token a refresh returned, after
\* a second confirmation e-mail had been queued for it.
C18_Witness ==
    /\ resp.op = "refresh_token"
    /\ resp.status = 200
    /\ Stored(resp.email) = resp.refresh_token
    /\ users[resp.email].confirmed
    /\ Cardinality(mailed) > 1

\* Calendar order of two dates: by year, then month, then day.
DateLE(a, b) ==
    \/ a.y < b.y
    \/ a.y = b.y /\ a.m < b.m
    \/ a.y = b.y /\ a.m = b.m /\ a.d <= b.d

\* The date 7 days after a day of the first three weeks of a 30-day month.
SevenDaysAfter(day) == Date(day.y, day.m, day.d + 7)

\* C19: search_by_birthday returns exactly the contacts whose stored date,
\* year included, lies from today to today + 7 days; a contact whose
\* birthday lies in an earlier year is never returned, its month and day
\* falling within the week or not.
C19_BirthdayComparesFullDate ==
    [][\A user \in Principals :
          search_by_birthday(user) =>
             /\ resp'.ids = {id \in DOMAIN contacts :
                               /\ DateLE(today, contacts[id].birthday)
                               /\ DateLE(contacts[id].birthday, SevenDaysAfter(today))}
             /\ \A id \in DOMAIN contacts :
                   contacts[id].birthday.y < today.y => id \notin resp'.ids]_vars

\* The search left out a contact dated 2023-06-05 and returned a contact
\* dated 2024-06-05.
C19_Witness ==
    /\ resp.op = "search_by_birthday"
    /\ \E id \in DOMAIN contacts \ resp.ids : contacts[id].birthday = Date(2023, 6, 5)
    /\ \E id \in resp.ids : contacts[id].birthday = Date(2024, 6, 5)

====
